---- MODULE Spec2Model ----
(***************************************************************************)
(* A model of the USARB schedule monitor: the snapshot diff engine of      *)
(* schedule_monitor.py, the calendar reconciliation of main.py and the     *)
(* command handlers of telegram_bot.py that drive them.                    *)
(*                                                                         *)
(* The upstream site, the CalDAV server and the handlers' positions are    *)
(* the state.  A handler is a chain of steps, one per blocking call to a   *)
(* collaborator, so that every collaborator call can succeed or fail on    *)
(* its own.  The asyncio event loop runs one handler at a time; only the   *)
(* periodic auto_check job suspends in the middle (its send_message        *)
(* await), and a command handler may then run before it resumes.           *)
(***************************************************************************)
EXTENDS Integers, Sequences, FiniteSets, TLC

VARIABLES
    upstream,          \* the site's listing: week -> sequence of raw lesson records
    snapshot,          \* ScheduleMonitor.snapshot: group -> week key -> event id -> lesson
    snapshot_file,     \* schedule_snapshot.json on disk
    calendar,          \* the CalDAV calendar: event id -> stored event
    connected,         \* ScheduleBot.calendar_sync.calendar is set
    pc,                \* position of the code the event loop is running
    who,               \* the caller of the running sync_lessons
    sl,                \* the locals of the running sync_lessons
    current_schedule,  \* the current_schedule local of the last fetch_current_schedule
    changes,           \* the list the last detect_changes returned
    job,               \* the auto_check job: "none", or "notified" while suspended
    job_schedule,      \* the current_schedule local of the suspended auto_check
    auto_sync,         \* AUTO_SYNC of the environment is "true"
    hist,              \* what the running (or last) run did, for the properties
    budget,            \* the runs, upstream edits and failures spent so far
    call,              \* the last call of a function made on its own, with its result
    _job_scheduled,    \* ScheduleBot._job_scheduled
    job_queue          \* the auto_check jobs in the JobQueue of the application

vars == <<upstream, snapshot, snapshot_file, calendar, connected, pc, who, sl,
          current_schedule, changes, job, job_schedule, auto_sync, hist, budget, call,
          _job_scheduled, job_queue>>

-----------------------------------------------------------------------------
(* Bounds of the model *)

\* the university week of today (calc_university_week_from_date(today))
current_week == 11

\* handler runs started in one behaviour
MaxRuns == 2

\* edits of the upstream listing in one behaviour
MaxUpstreamChanges == 1

\* collaborator calls that fail in one behaviour
MaxFailures == 1

\* /start commands in one behaviour
MaxStarts == 2

\* the largest number read back from a snapshot file
MaxNumber == 20

-----------------------------------------------------------------------------
(* Dictionaries: a Python dict is a function whose domain is its key set *)

EmptyDict == <<>>

Get(d, k, default) == IF k \in DOMAIN d THEN d[k] ELSE default

Put(d, k, v) == [x \in (DOMAIN d) \cup {k} |-> IF x = k THEN v ELSE d[x]]

Remove(d, k) == [x \in (DOMAIN d) \ {k} |-> d[x]]

\* the elements of a finite set in some fixed order (Python iterates a set in
\* an order the program does not control)
RECURSIVE SetToSeq(_)
SetToSeq(S) ==
    IF S = {} THEN <<>>
    ELSE LET x == CHOOSE y \in S : TRUE IN <<x>> \o SetToSeq(S \ {x})

-----------------------------------------------------------------------------
(* Configuration and inputs *)

group_name == "IT11Z"

\* list(range(current_week, current_week + self.monitor_weeks + 1)), with
\* MONITOR_WEEKS=1 in the environment
weeks_to_monitor == <<current_week, current_week + 1>>

Weeks == {weeks_to_monitor[i] : i \in DOMAIN weeks_to_monitor}

Raw(day, nr, name, type, office, teacher) ==
    [day_number |-> day, cours_nr |-> nr, cours_name |-> name,
     cours_type |-> type, cours_office |-> office, teacher_name |-> teacher]

Math224 == Raw(1, 3, "Math", "Lecture", "224", "Popescu V.")
Math301 == Raw(1, 3, "Math", "Lecture", "301", "Popescu V.")
Physics == Raw(2, 1, "Physics", "Lab", "105", "Rusu A.")
Chemistry == Raw(3, 2, "Chemistry", "Seminar", "410", "Cernolev C.")
History == Raw(4, 1, "History", "Lecture", "", "Moraru I.")
\* Math with another teacher
MathIonescu == Raw(1, 3, "Math", "Lecture", "224", "Ionescu M.")
\* an entry of the site without day and lesson number
Unplaced == Raw(0, 0, "Sport", "", "", "")

\* the listings the site publishes for one week, in source order; the last
\* one lists the same lesson twice, with two offices
Listings == { <<>>, <<Math224>>, <<Math301>>, <<Math224, Physics>>,
              <<Math224, Math301>> }

\* more listings, for the diff engine alone
DiffListings ==
    Listings \cup { <<Math224, Physics, Chemistry>>, <<Math301, Physics, History>>,
                    <<MathIonescu, Physics>>, <<Unplaced, Math224>> }

-----------------------------------------------------------------------------
(* data_parser *)

Digit(d) ==
    CASE d = 0 -> "0" [] d = 1 -> "1" [] d = 2 -> "2" [] d = 3 -> "3"
      [] d = 4 -> "4" [] d = 5 -> "5" [] d = 6 -> "6" [] d = 7 -> "7"
      [] d = 8 -> "8" [] d = 9 -> "9"

\* str(n) of a natural number
RECURSIVE Str(_)
Str(n) == IF n < 10 THEN Digit(n) ELSE Str(n \div 10) \o Digit(n % 10)

\* The identity of a lesson: the digest of the concatenated string forms of
\* its fields.  The digest is taken to be collision free, so the identity is
\* modelled by the string that is hashed.
generate_event_id(group, week, day, nr, name, type) ==
    group \o Str(week) \o Str(day) \o Str(nr) \o name \o type

-----------------------------------------------------------------------------
(* raw_schedule_data_fetch: the answer of the site for one week *)

get_raw_schedule_json(site, group, week) == [week |-> site[week]]

-----------------------------------------------------------------------------
(* schedule_monitor.ScheduleMonitor *)

None == <<>>

ScheduleChange(type, week, day, nr, old, new, id) ==
    [type |-> type, week |-> week, day_number |-> day, lesson_number |-> nr,
     old_lesson |-> old, new_lesson |-> new, event_id |-> id]

\* _normalize_lesson with the office passed into the identity
_normalize_lesson_OfficeInId(lesson, group, week) ==
    [event_id |-> generate_event_id(group, week, lesson.day_number, lesson.cours_nr,
                                    lesson.cours_name,
                                    lesson.cours_type \o lesson.cours_office),
     day_number |-> lesson.day_number,
     lesson_number |-> lesson.cours_nr,
     cours_name |-> lesson.cours_name,
     cours_type |-> lesson.cours_type,
     cours_office |-> lesson.cours_office,
     teacher_name |-> lesson.teacher_name]

_normalize_lesson(lesson, group, week) ==
    [event_id |-> generate_event_id(group, week, lesson.day_number, lesson.cours_nr,
                                    lesson.cours_name, lesson.cours_type),
     day_number |-> lesson.day_number,
     lesson_number |-> lesson.cours_nr,
     cours_name |-> lesson.cours_name,
     cours_type |-> lesson.cours_type,
     cours_office |-> lesson.cours_office,
     teacher_name |-> lesson.teacher_name]

\* the loop keeping the first entry of an identity
RECURSIVE NormalizeEntries_FirstWins(_, _, _, _)
NormalizeEntries_FirstWins(entries, group, week, acc) ==
    IF entries = <<>> THEN acc
    ELSE LET normalized == _normalize_lesson(Head(entries), group, week)
         IN NormalizeEntries_FirstWins(Tail(entries), group, week,
                IF normalized.event_id \in DOMAIN acc THEN acc
                ELSE Put(acc, normalized.event_id, normalized))

\* the loop "for lesson in entries: current[week_key][event_id] = normalized"
RECURSIVE NormalizeEntries(_, _, _, _)
NormalizeEntries(entries, group, week, acc) ==
    IF entries = <<>> THEN acc
    ELSE LET normalized == _normalize_lesson(Head(entries), group, week)
         IN NormalizeEntries(Tail(entries), group, week,
                             Put(acc, normalized.event_id, normalized))

\* fetch_current_schedule, where `ok` is the set of weeks whose request to the
\* site succeeds: a week whose request raises gets no key in the result
RECURSIVE FetchWeeks(_, _, _, _, _)
FetchWeeks(site, group, weeks, ok, current) ==
    IF weeks = <<>> THEN current
    ELSE LET week == Head(weeks)
             entries == get_raw_schedule_json(site, group, week).week
             next == IF week \in ok
                     THEN Put(current, Str(week),
                              NormalizeEntries(entries, group, week, EmptyDict))
                     ELSE current
         IN FetchWeeks(site, group, Tail(weeks), ok, next)

fetch_current_schedule(site, group, weeks, ok) ==
    FetchWeeks(site, group, weeks, ok, EmptyDict)

AddedChanges(week, current_week_d, saved_week_d) ==
    LET added_ids == SetToSeq((DOMAIN current_week_d) \ (DOMAIN saved_week_d))
    IN [i \in DOMAIN added_ids |->
          LET lesson == current_week_d[added_ids[i]]
          IN ScheduleChange("added", week, lesson.day_number, lesson.lesson_number,
                            None, lesson, added_ids[i])]

\* removed_ids taken as all saved ids, the current ones not taken off
RemovedChanges_NoSubtract(week, current_week_d, saved_week_d) ==
    LET removed_ids == SetToSeq(DOMAIN saved_week_d)
    IN [i \in DOMAIN removed_ids |->
          LET lesson == saved_week_d[removed_ids[i]]
          IN ScheduleChange("removed", week, lesson.day_number, lesson.lesson_number,
                            lesson, None, removed_ids[i])]

RemovedChanges(week, current_week_d, saved_week_d) ==
    LET removed_ids == SetToSeq((DOMAIN saved_week_d) \ (DOMAIN current_week_d))
    IN [i \in DOMAIN removed_ids |->
          LET lesson == saved_week_d[removed_ids[i]]
          IN ScheduleChange("removed", week, lesson.day_number, lesson.lesson_number,
                            lesson, None, removed_ids[i])]

\* the comparison with the office left out as well
CompareFields_NoOffice(lesson) ==
    [k \in (DOMAIN lesson) \ {"event_id", "cours_office"} |-> lesson[k]]

\* the fields of a lesson that are compared: all but event_id
CompareFields(lesson) == [k \in (DOMAIN lesson) \ {"event_id"} |-> lesson[k]]

ModifiedIds(current_week_d, saved_week_d) ==
    { id \in (DOMAIN current_week_d) \cap (DOMAIN saved_week_d) :
        CompareFields(current_week_d[id]) # CompareFields(saved_week_d[id]) }

ModifiedChanges(week, current_week_d, saved_week_d) ==
    LET modified_ids == SetToSeq(ModifiedIds(current_week_d, saved_week_d))
    IN [i \in DOMAIN modified_ids |->
          LET current_lesson == current_week_d[modified_ids[i]]
              saved_lesson == saved_week_d[modified_ids[i]]
          IN ScheduleChange("modified", week, current_lesson.day_number,
                            current_lesson.lesson_number, saved_lesson,
                            current_lesson, modified_ids[i])]

\* the body of the loop with the saved slice taken from the week before
WeekChanges_CrossWeek(week, current, saved_schedule) ==
    LET week_key == Str(week)
        current_week_d == Get(current, week_key, EmptyDict)
        saved_week_d == Get(saved_schedule, Str(week - 1), EmptyDict)
    IN AddedChanges(week, current_week_d, saved_week_d)
       \o RemovedChanges(week, current_week_d, saved_week_d)
       \o ModifiedChanges(week, current_week_d, saved_week_d)

\* the body of the loop "for week in weeks" of detect_changes
WeekChanges(week, current, saved_schedule) ==
    LET week_key == Str(week)
        current_week_d == Get(current, week_key, EmptyDict)
        saved_week_d == Get(saved_schedule, week_key, EmptyDict)
    IN AddedChanges(week, current_week_d, saved_week_d)
       \o RemovedChanges(week, current_week_d, saved_week_d)
       \o ModifiedChanges(week, current_week_d, saved_week_d)

RECURSIVE DetectWeeks(_, _, _)
DetectWeeks(weeks, current, saved_schedule) ==
    IF weeks = <<>> THEN <<>>
    ELSE WeekChanges(Head(weeks), current, saved_schedule)
         \o DetectWeeks(Tail(weeks), current, saved_schedule)

detect_changes(snap, group, weeks, current) ==
    DetectWeeks(weeks, current, Get(snap, group, EmptyDict))

RECURSIVE StoreWeeks(_, _, _)
StoreWeeks(saved_schedule, weeks, schedule) ==
    IF weeks = <<>> THEN saved_schedule
    ELSE StoreWeeks(Put(saved_schedule, Str(Head(weeks)),
                        Get(schedule, Str(Head(weeks)), EmptyDict)),
                    Tail(weeks), schedule)

\* update_snapshot that stores the first week of the list alone
update_snapshot_FirstWeek(snap, group, weeks, schedule) ==
    Put(snap, group, StoreWeeks(Get(snap, group, EmptyDict), SubSeq(weeks, 1, 1), schedule))

update_snapshot(snap, group, weeks, schedule) ==
    Put(snap, group, StoreWeeks(Get(snap, group, EmptyDict), weeks, schedule))

\* JSON text of a number and of a string
JNum(n) == <<"num", Str(n)>>
JStr(text) == <<"str", text>>

\* int(text): the number whose decimal form the text is
ParseNat(text) == CHOOSE n \in 0..MaxNumber : Str(n) = text

\* the JSON object of a normalized lesson: day_number and lesson_number are
\* numbers, the other fields strings
EncodeLesson(lesson) ==
    [k \in DOMAIN lesson |->
        IF k \in {"day_number", "lesson_number"} THEN JNum(lesson[k])
        ELSE JStr(lesson[k])]

DecodeLesson(object) ==
    [k \in DOMAIN object |->
        IF object[k][1] = "num" THEN ParseNat(object[k][2]) ELSE object[k][2]]

\* json.dump(self.snapshot, f): group, week key and event id are strings and
\* stay the keys of the objects
json_dump(snap) ==
    [g \in DOMAIN snap |->
       [w \in DOMAIN snap[g] |->
          [id \in DOMAIN snap[g][w] |-> EncodeLesson(snap[g][w][id])]]]

\* json.load(f)
json_load(doc) ==
    [g \in DOMAIN doc |->
       [w \in DOMAIN doc[g] |->
          [id \in DOMAIN doc[g][w] |-> DecodeLesson(doc[g][w][id])]]]

\* schedule_snapshot.json: not there, there with text that is no JSON, or
\* there with a JSON document
AbsentFile == [state |-> "absent", doc |-> EmptyDict]
GarbageFile == [state |-> "garbage", doc |-> EmptyDict]
JsonFile(doc) == [state |-> "json", doc |-> doc]

\* _save_snapshot that loses the office of every lesson
_save_snapshot_NoOffice(file, snap, write) ==
    CASE write = "ok" ->
           JsonFile([g \in DOMAIN snap |->
                      [w \in DOMAIN snap[g] |->
                         [id \in DOMAIN snap[g][w] |->
                            EncodeLesson([k \in (DOMAIN snap[g][w][id]) \ {"cours_office"}
                                            |-> snap[g][w][id][k]])]]])
      [] write = "denied" -> file
      [] OTHER -> GarbageFile

\* _save_snapshot: the file is written ("ok"), or open raises and the file
\* stays as it was ("denied"), or the write raises after open has truncated
\* the file ("torn"); the exception is printed and swallowed
_save_snapshot(file, snap, write) ==
    CASE write = "ok" -> JsonFile(json_dump(snap))
      [] write = "denied" -> file
      [] OTHER -> GarbageFile

\* data_parser: the string whose MD5 names a lesson, the fields one after the
\* other with nothing between them
to_hash(group, week, day, nr, name, type, teacher) ==
    group \o Str(week) \o Str(day) \o Str(nr) \o name \o type \o teacher

\* hashlib.md5(to_hash.encode()).hexdigest(): one digest per string
get_lesson_id(group, week, day, nr, name, type, teacher) ==
    "md5:" \o to_hash(group, week, day, nr, name, type, teacher)

\* the lessons of one week under their hash, a later entry of the same hash
\* taking the place of the earlier one
RECURSIVE ParserLessons(_, _, _, _)
ParserLessons(entries, group, week, acc) ==
    IF entries = <<>> THEN acc
    ELSE LET lesson == Head(entries)
             lesson_hash == get_lesson_id(group, week, lesson.day_number, lesson.cours_nr,
                                          lesson.cours_name, lesson.cours_type,
                                          lesson.teacher_name)
         IN ParserLessons(Tail(entries), group, week,
                Put(acc, lesson_hash,
                    [lesson_day |-> lesson.day_number, lesson_nr |-> lesson.cours_nr,
                     lesson_name |-> lesson.cours_name, lesson_type |-> lesson.cours_type,
                     office |-> lesson.cours_office, teacher |-> lesson.teacher_name]))

\* get_schedule_for_snapshot: week -> hash -> fields, with a key for every
\* week that has a lesson
get_schedule_for_snapshot(site, group, weeks) ==
    [week \in {w \in weeks : get_raw_schedule_json(site, group, w).week # <<>>} |->
        ParserLessons(get_raw_schedule_json(site, group, week).week, group, week, EmptyDict)]

\* json.dump(schedule, f) of save_schedule_to_json: the week numbers become
\* the keys of the top object
ScheduleDocument(schedule) ==
    [key \in {Str(w) : w \in DOMAIN schedule} |->
        LET week == CHOOSE w \in DOMAIN schedule : Str(w) = key
        IN [h \in DOMAIN schedule[week] |->
              [k \in DOMAIN schedule[week][h] |->
                  IF k \in {"lesson_day", "lesson_nr"} THEN JNum(schedule[week][h][k])
                  ELSE JStr(schedule[week][h][k])]]]

\* _load_snapshot that lets the exception of an undecodable file through:
\* the monitor is left without the snapshot it starts from
_load_snapshot_Raise(file) ==
    CASE file.state = "json" -> json_load(file.doc)
      [] file.state = "absent" -> EmptyDict
      [] OTHER -> [raised |-> [error |-> EmptyDict]]

\* _load_snapshot: the snapshot of the file, the empty one when the file is
\* not there or json.load raises
_load_snapshot(file) ==
    IF file.state = "json" THEN json_load(file.doc) ELSE EmptyDict

-----------------------------------------------------------------------------
(* main.CalendarSync: the events and the search of the calendar *)

MinWeek(weeks) == CHOOSE w \in {weeks[i] : i \in DOMAIN weeks} :
                      \A v \in {weeks[i] : i \in DOMAIN weeks} : w <= v

MaxWeek(weeks) == CHOOSE w \in {weeks[i] : i \in DOMAIN weeks} :
                      \A v \in {weeks[i] : i \in DOMAIN weeks} : w >= v

\* the start of a lesson, kept as its coordinates in the term
calc_lesson_datetime(week, day_number, lesson_number) ==
    [week |-> week, day |-> day_number, lesson |-> lesson_number]

\* title = f"{cours_name} | {cours_type}" if cours_type else cours_name
EventTitle(lesson) ==
    IF lesson.cours_type # "" THEN lesson.cours_name \o " | " \o lesson.cours_type
    ELSE lesson.cours_name

\* description = "\n".join(p for p in description_parts if p), kept as its lines
EventDescription(lesson) ==
    SelectSeq(<< "Lesson " \o Str(lesson.cours_nr),
                 IF lesson.cours_type # "" THEN "Type: " \o lesson.cours_type ELSE "",
                 IF lesson.cours_office # "" THEN "Office: " \o lesson.cours_office
                 ELSE "Unknown",
                 IF lesson.teacher_name # "" THEN "Teacher: " \o lesson.teacher_name
                 ELSE "" >>,
              LAMBDA part : part # "")

EventLocation(lesson) ==
    IF lesson.cours_office # "" THEN lesson.cours_office ELSE "Unknown"

\* the VEVENT create_or_update_event stores: UID is event_id "@" the fixed domain
VEvent(event_id, title, start_dt, description, location) ==
    [uid |-> <<event_id, "usarb-schedule.local">>, summary |-> title,
     dtstart |-> start_dt, description |-> description, location |-> location]

LessonEvent(lesson, week) ==
    VEvent(generate_event_id(group_name, week, lesson.day_number, lesson.cours_nr,
                             lesson.cours_name, lesson.cours_type),
           EventTitle(lesson),
           calc_lesson_datetime(week, lesson.day_number, lesson.cours_nr),
           EventDescription(lesson), EventLocation(lesson))

\* calendar.search(start, end) for the window from day 1 of the first week to
\* the day after day 7 of the last week
InWindow(event, weeks) ==
    /\ event.dtstart.week >= MinWeek(weeks)
    /\ event.dtstart.week <= MaxWeek(weeks)

\* get_existing_events: the event ids cut from the UIDs of the events found;
\* a search that raises gives the empty dict
get_existing_events(cal, weeks, search_ok) ==
    IF search_ok
    THEN { cal[k].uid[1] : k \in { x \in DOMAIN cal : InWindow(cal[x], weeks) } }
    ELSE {}

\* existing_events = self.get_existing_events(start_dt, end_dt) if overwrite else {}
ExistingEvents(cal, weeks, overwrite, search_ok) ==
    IF overwrite THEN get_existing_events(cal, weeks, search_ok) ELSE {}

\* save_event without the object id: the server stores every event it is
\* sent under a name of its own
save_event_NoObjectId(cal, event_id, event, outcome) ==
    IF outcome = "ok"
    THEN Put(cal, event_id \o "-" \o Str(Cardinality(DOMAIN cal)), event)
    ELSE cal

\* calendar.save_event(..., object_id=f"{event_id}.ics"): the event is stored
\* under its object id ("ok"), or the server refuses ("conflict": 412
\* Precondition Failed, "fail": any other error) and stores nothing
save_event(cal, event_id, event, outcome) ==
    IF outcome = "ok" THEN Put(cal, event_id, event) ELSE cal

\* create_or_update_event with 412 taken for an error like any other
create_or_update_event_Strict(outcome) == outcome = "ok"

\* create_or_update_event returns True on success and on 412
create_or_update_event(outcome) == outcome \in {"ok", "conflict"}

\* existing_events[event_id].delete()
delete_event(cal, event_id, delete_ok) ==
    IF delete_ok THEN Remove(cal, event_id) ELSE cal

-----------------------------------------------------------------------------
(* The state machine *)

NoLesson == Raw(0, 0, "", "", "", "")

\* no function has been called on its own
NoCall == [fn |-> "none"]

\* the locals of sync_lessons before its first statement
SlInit(weeks, overwrite) ==
    [weeks |-> weeks, overwrite |-> overwrite, existing_events |-> {},
     wk |-> 1, entries |-> <<>>, lesson |-> NoLesson, event_exists |-> FALSE,
     total_events |-> 0, created |-> 0, updated |-> 0, skipped |-> 0]

\* The record of the run: the first group of fields describes the handler
\* that is running and is cleared when it ends, the second group is kept.
HistInit ==
    [last |-> "none",         \* the last stage completed: detect, lesson, sync, commit
     ops |-> <<>>,            \* the calendar calls made for the lesson handled last
     in_calendar |-> FALSE,   \* that lesson had an event when its turn came
     fetch_failed |-> {},     \* the weeks whose request failed in the last fetch
     failed_weeks |-> {},     \* the weeks with a failed create in this run
     creates |-> 0,           \* create calls of this run
     deletes |-> 0,           \* delete calls of this run
     clean |-> TRUE,          \* no failure and no upstream edit in this run so far
     after_settled |-> FALSE, \* settled, when the sync_lessons of this run started
     after_added |-> FALSE,   \* diff_added, when this run started
     pending0 |-> {},         \* pending, when this run started
     attempted |-> {},        \* lessons this run called create for
     requested |-> {},        \* the weeks this sync_lessons asked the site for
     answered |-> {},         \* the weeks of them the site answered
     seen |-> {},             \* lessons this sync_lessons skipped or called create for
     outcome |-> "none",      \* the answer of the server to the last save_event
     settled |-> FALSE,       \* a sync_lessons run ended clean, upstream as it was then
     diff_added |-> FALSE,    \* the last diff, of the upstream as it is, reported Added
     pending |-> {},          \* lessons whose create failed, upstream unchanged since
     committed |-> EmptyDict, \* the schedule the last update_snapshot stored
     commits |-> 0,           \* 1 once update_snapshot has run
     loaded |-> EmptyDict,    \* the snapshot _load_snapshot gave at start-up
     file0 |-> AbsentFile]    \* the snapshot file as it was at start-up

\* the record of a call of sync_lessons starts empty
SyncStart(h) ==
    [h EXCEPT !.last = "none", !.ops = <<>>, !.in_calendar = FALSE,
              !.failed_weeks = {}, !.creates = 0, !.deletes = 0,
              !.clean = TRUE, !.after_settled = FALSE,
              !.pending0 = h.pending, !.attempted = {},
              !.requested = {}, !.answered = {}, !.seen = {}, !.outcome = "none"]

\* the record of a handler run starts empty
RunStart(h) ==
    [SyncStart(h) EXCEPT !.fetch_failed = {}, !.after_added = h.diff_added]

\* the bot once its user has sent the /start that scheduled auto_check
Started ==
    /\ _job_scheduled = TRUE
    /\ job_queue = 1

Init ==
    /\ upstream \in [Weeks -> {<<>>, <<Math224>>}]
    /\ snapshot_file = AbsentFile
    /\ snapshot = _load_snapshot(snapshot_file)
    /\ call = NoCall
    /\ calendar = EmptyDict
    /\ connected = FALSE
    /\ pc = "idle"
    /\ who = "none"
    /\ sl = SlInit(weeks_to_monitor, TRUE)
    /\ current_schedule = EmptyDict
    /\ changes = <<>>
    /\ job = "none"
    /\ job_schedule = EmptyDict
    /\ auto_sync \in BOOLEAN
    /\ hist = HistInit
    /\ budget = [runs |-> 0, edits |-> 0, failures |-> 0, starts |-> 0]
    /\ Started

\* the answers of the file system to the write of the snapshot file
WriteOutcomes ==
    {"ok"} \cup (IF budget.failures < MaxFailures THEN {"denied", "torn"} ELSE {})

\* a collaborator call succeeds, or fails while failures are left to spend
Outcomes == {TRUE} \cup (IF budget.failures < MaxFailures THEN {FALSE} ELSE {})

\* the sets of weeks whose fetch succeeds
OkWeekSets ==
    { ok \in SUBSET Weeks : budget.failures + Cardinality(Weeks \ ok) <= MaxFailures }

Spend(b, n) == [b EXCEPT !.failures = @ + n]

Cost(ok) == IF ok THEN 0 ELSE 1

HasAdded(found) == \E i \in DOMAIN found : found[i].type = "added"

\* The site edits the listing of one week.  The program reads the site only
\* when it fetches, and sync_lessons fetches each week once: an edit during
\* sync_lessons shows the program what an edit before it shows.  So an edit is
\* taken between two runs, or between the two fetches of sync_command.
UpstreamChange ==
    /\ budget.edits < MaxUpstreamChanges
    /\ pc \in {"idle", "sc_commit"}
    /\ \E week \in Weeks :
          \E listing \in Listings \ {upstream[week]} :
             upstream' = [upstream EXCEPT ![week] = listing]
    /\ budget' = [budget EXCEPT !.edits = @ + 1]
    /\ hist' = [hist EXCEPT !.clean = FALSE, !.settled = FALSE, !.pending = {},
                            !.diff_added = FALSE]
    /\ UNCHANGED <<snapshot, calendar, connected, pc, who, sl, current_schedule,
                   changes, job, job_schedule, auto_sync,
                   snapshot_file, call,
                   _job_scheduled, job_queue>>

\* the record of a diff that fetched `fetched` with the weeks `ok` answered
Diffed(h, ok, found) ==
    [RunStart(h) EXCEPT !.last = "detect", !.fetch_failed = Weeks \ ok,
                        !.clean = (ok = Weeks),
                        !.diff_added = HasAdded(found) /\ ok = Weeks]

\* a check_command that stores what it fetched
CheckCommand_Stores ==
    /\ pc = "idle"
    /\ budget.runs < MaxRuns
    /\ \E ok \in OkWeekSets :
          LET fetched == fetch_current_schedule(upstream, group_name, weeks_to_monitor, ok)
              found == detect_changes(snapshot, group_name, weeks_to_monitor, fetched)
          IN /\ current_schedule' = fetched
             /\ changes' = found
             /\ hist' = Diffed(hist, ok, found)
             /\ budget' = [Spend(budget, Cardinality(Weeks \ ok)) EXCEPT !.runs = @ + 1]
             /\ snapshot' = update_snapshot(snapshot, group_name, weeks_to_monitor, fetched)
             /\ snapshot_file' = _save_snapshot(snapshot_file, snapshot', "ok")
    /\ pc' = "done"
    /\ who' = "check_command"
    /\ UNCHANGED <<upstream, calendar, connected, sl, job, job_schedule,
                   auto_sync, call,
                   _job_scheduled, job_queue>>

\* check_command: fetch_current_schedule, detect_changes, reply
CheckCommand ==
    /\ pc = "idle"
    /\ budget.runs < MaxRuns
    /\ \E ok \in OkWeekSets :
          LET fetched == fetch_current_schedule(upstream, group_name, weeks_to_monitor, ok)
              found == detect_changes(snapshot, group_name, weeks_to_monitor, fetched)
          IN /\ current_schedule' = fetched
             /\ changes' = found
             /\ hist' = Diffed(hist, ok, found)
             /\ budget' = [Spend(budget, Cardinality(Weeks \ ok)) EXCEPT !.runs = @ + 1]
    /\ pc' = "done"
    /\ who' = "check_command"
    /\ UNCHANGED <<upstream, snapshot, calendar, connected, sl, job, job_schedule,
                   auto_sync,
                   snapshot_file, call,
                   _job_scheduled, job_queue>>

\* auto_check up to its first await: fetch_current_schedule, detect_changes,
\* and the notification when there are changes.  With AUTO_SYNC the job goes
\* on after the await.
AutoCheck ==
    /\ pc = "idle"
    /\ job = "none"
    /\ job_queue > 0
    /\ budget.runs < MaxRuns
    /\ \E ok \in OkWeekSets :
          LET fetched == fetch_current_schedule(upstream, group_name, weeks_to_monitor, ok)
              found == detect_changes(snapshot, group_name, weeks_to_monitor, fetched)
          IN /\ current_schedule' = fetched
             /\ changes' = found
             /\ job' = IF found # <<>> /\ auto_sync THEN "notified" ELSE "none"
             /\ job_schedule' = IF found # <<>> /\ auto_sync THEN fetched ELSE EmptyDict
             /\ hist' = Diffed(hist, ok, found)
             /\ budget' = [Spend(budget, Cardinality(Weeks \ ok)) EXCEPT !.runs = @ + 1]
    /\ pc' = "done"
    /\ who' = "auto_check"
    /\ UNCHANGED <<upstream, snapshot, calendar, connected, sl, auto_sync,
                   snapshot_file, call,
                   _job_scheduled, job_queue>>

\* auto_check after the await, with AUTO_SYNC: connect() if there is no
\* calendar yet (its result is not looked at), then sync_lessons
AutoCheckResume ==
    /\ pc = "idle"
    /\ job = "notified"
    /\ \E connect_ok \in (IF connected THEN {TRUE} ELSE Outcomes) :
          /\ connected' = (connected \/ connect_ok)
          /\ hist' = [SyncStart(hist) EXCEPT !.clean = connect_ok]
          /\ budget' = Spend(budget, Cost(connect_ok))
    /\ who' = "auto_check"
    /\ pc' = "sl_start"
    /\ sl' = SlInit(weeks_to_monitor, TRUE)
    /\ UNCHANGED <<upstream, snapshot, calendar, current_schedule, changes, job,
                   job_schedule, auto_sync,
                   snapshot_file, call,
                   _job_scheduled, job_queue>>

\* sync_command up to the call of sync_lessons: connect when there is no
\* calendar yet, and return when that fails
SyncCommand ==
    /\ pc = "idle"
    /\ budget.runs < MaxRuns
    /\ \E connect_ok \in (IF connected THEN {TRUE} ELSE Outcomes) :
          /\ connected' = (connected \/ connect_ok)
          /\ pc' = IF connect_ok THEN "sl_start" ELSE "done"
          /\ hist' = [RunStart(hist) EXCEPT !.clean = connect_ok]
          /\ budget' = [Spend(budget, Cost(connect_ok)) EXCEPT !.runs = @ + 1]
    /\ who' = "sync_command"
    /\ sl' = SlInit(weeks_to_monitor, TRUE)
    /\ UNCHANGED <<upstream, snapshot, calendar, current_schedule, changes, job,
                   job_schedule, auto_sync,
                   snapshot_file, call,
                   _job_scheduled, job_queue>>

\* main(): sync_lessons on a CalendarSync of its own, with or without --no-overwrite
CliSync ==
    /\ pc = "idle"
    /\ budget.runs < MaxRuns
    /\ \E overwrite \in BOOLEAN : sl' = SlInit(weeks_to_monitor, overwrite)
    /\ who' = "cli"
    /\ pc' = "sl_start"
    /\ hist' = RunStart(hist)
    /\ budget' = [budget EXCEPT !.runs = @ + 1]
    /\ UNCHANGED <<upstream, snapshot, calendar, connected, current_schedule, changes,
                   job, job_schedule, auto_sync,
                   snapshot_file, call,
                   _job_scheduled, job_queue>>

\* where the caller of sync_lessons goes on after it returns
Continuation(caller) ==
    CASE caller = "sync_command" -> "sc_commit"
      [] caller = "auto_check" -> "ac_commit"
      [] OTHER -> "done"

\* sync_lessons returns
SlReturn(h, clean) == [h EXCEPT !.last = "sync", !.settled = clean, !.clean = clean]

\* sync_lessons, up to the loop over the weeks: connect when there is no
\* calendar (return False when that fails), then load the existing events
SlStart ==
    /\ pc = "sl_start"
    /\ LET has_calendar == who # "cli" /\ connected
       IN \E connect_ok \in (IF has_calendar THEN {TRUE} ELSE Outcomes) :
            IF ~connect_ok
            THEN /\ pc' = Continuation(who)
                 /\ hist' = SlReturn(hist, FALSE)
                 /\ budget' = Spend(budget, 1)
                 /\ UNCHANGED <<sl, connected,
                   _job_scheduled, job_queue>>
            ELSE \E search_ok \in (IF sl.overwrite THEN Outcomes ELSE {TRUE}) :
                   /\ sl' = [sl EXCEPT !.existing_events =
                                ExistingEvents(calendar, sl.weeks, sl.overwrite, search_ok)]
                   /\ connected' = IF who = "cli" THEN connected ELSE TRUE
                   /\ pc' = "sl_week"
                   /\ hist' = [hist EXCEPT !.after_settled = hist.settled,
                                           !.clean = hist.clean /\ search_ok]
                   /\ budget' = Spend(budget, Cost(search_ok))
    /\ UNCHANGED <<upstream, snapshot, calendar, who, current_schedule, changes, job,
                   job_schedule, auto_sync,
                   snapshot_file, call,
                   _job_scheduled, job_queue>>

\* the event id of the lesson sync_lessons is handling
LessonId ==
    generate_event_id(group_name, sl.weeks[sl.wk], sl.lesson.day_number,
                      sl.lesson.cours_nr, sl.lesson.cours_name, sl.lesson.cours_type)

\* the request to the site with its exception caught around the loop: a week
\* that fails ends the loop
SlWeek_Abort ==
    /\ pc = "sl_week"
    /\ IF sl.wk > Len(sl.weeks)
       THEN /\ pc' = Continuation(who)
            /\ hist' = SlReturn(hist, hist.clean)
            /\ UNCHANGED <<sl, budget,
                   _job_scheduled, job_queue>>
       ELSE \E fetch_ok \in Outcomes :
              /\ budget' = Spend(budget, Cost(fetch_ok))
              /\ IF fetch_ok
                 THEN /\ sl' = [sl EXCEPT !.entries =
                                  get_raw_schedule_json(upstream, group_name,
                                                        sl.weeks[sl.wk]).week]
                      /\ pc' = "sl_lesson"
                      /\ hist' = [hist EXCEPT
                                     !.requested = @ \cup {sl.weeks[sl.wk]},
                                     !.answered = @ \cup {sl.weeks[sl.wk]}]
                 ELSE /\ sl' = [sl EXCEPT !.wk = Len(sl.weeks) + 1, !.entries = <<>>]
                      /\ pc' = "sl_week"
                      /\ hist' = [hist EXCEPT
                                     !.requested = @ \cup {sl.weeks[sl.wk]},
                                     !.clean = FALSE]
    /\ UNCHANGED <<upstream, snapshot, calendar, connected, who, current_schedule,
                   changes, job, job_schedule, auto_sync,
                   snapshot_file, call,
                   _job_scheduled, job_queue>>

\* sync_lessons, "for week in weeks": the request to the site for the next
\* week; when it raises, the week is left and the loop goes on.  After the
\* last week sync_lessons returns True.
SlWeek ==
    /\ pc = "sl_week"
    /\ IF sl.wk > Len(sl.weeks)
       THEN /\ pc' = Continuation(who)
            /\ hist' = SlReturn(hist, hist.clean)
            /\ UNCHANGED <<sl, budget,
                   _job_scheduled, job_queue>>
       ELSE \E fetch_ok \in Outcomes :
              /\ budget' = Spend(budget, Cost(fetch_ok))
              /\ IF fetch_ok
                 THEN /\ sl' = [sl EXCEPT !.entries =
                                  get_raw_schedule_json(upstream, group_name,
                                                        sl.weeks[sl.wk]).week]
                      /\ pc' = "sl_lesson"
                      /\ hist' = [hist EXCEPT
                                     !.requested = @ \cup {sl.weeks[sl.wk]},
                                     !.answered = @ \cup {sl.weeks[sl.wk]}]
                 ELSE /\ sl' = [sl EXCEPT !.wk = @ + 1, !.entries = <<>>]
                      /\ pc' = "sl_week"
                      /\ hist' = [hist EXCEPT
                                     !.requested = @ \cup {sl.weeks[sl.wk]},
                                     !.clean = FALSE]
    /\ UNCHANGED <<upstream, snapshot, calendar, connected, who, current_schedule,
                   changes, job, job_schedule, auto_sync,
                   snapshot_file, call,
                   _job_scheduled, job_queue>>

\* sync_lessons, "for lesson in entries", up to the calendar calls: a lesson
\* without day or number is passed over, an existing event is skipped when
\* overwrite is off
SlLesson ==
    /\ pc = "sl_lesson"
    /\ IF sl.entries = <<>>
       THEN /\ sl' = [sl EXCEPT !.wk = @ + 1]
            /\ pc' = "sl_week"
            /\ hist' = [hist EXCEPT !.last = "none"]
       ELSE LET lesson == Head(sl.entries)
                event_id == generate_event_id(group_name, sl.weeks[sl.wk],
                                lesson.day_number, lesson.cours_nr,
                                lesson.cours_name, lesson.cours_type)
                event_exists == event_id \in sl.existing_events
            IN IF lesson.day_number = 0 \/ lesson.cours_nr = 0
               THEN /\ sl' = [sl EXCEPT !.entries = Tail(@)]
                    /\ pc' = "sl_lesson"
                    /\ hist' = hist
               ELSE IF event_exists /\ ~sl.overwrite
               THEN /\ sl' = [sl EXCEPT !.entries = Tail(@), !.lesson = lesson,
                                        !.event_exists = event_exists,
                                        !.skipped = @ + 1]
                    /\ pc' = "sl_lesson"
                    /\ hist' = [hist EXCEPT !.last = "lesson", !.ops = <<"skip">>,
                                   !.seen = @ \cup {event_id}, !.outcome = "none",
                                   !.in_calendar = event_id \in DOMAIN calendar]
               ELSE /\ sl' = [sl EXCEPT !.entries = Tail(@), !.lesson = lesson,
                                        !.event_exists = event_exists]
                    /\ pc' = IF event_exists /\ sl.overwrite THEN "sl_delete"
                             ELSE "sl_create"
                    /\ hist' = [hist EXCEPT !.last = "none", !.ops = <<>>,
                                   !.outcome = "none",
                                   !.in_calendar = event_id \in DOMAIN calendar]
    /\ UNCHANGED <<upstream, snapshot, calendar, connected, who, current_schedule,
                   changes, job, job_schedule, auto_sync, budget,
                   snapshot_file, call,
                   _job_scheduled, job_queue>>

\* the delete with its exception not caught: it ends the week
SlDelete_Abort ==
    /\ pc = "sl_delete"
    /\ \E delete_ok \in (IF LessonId \in DOMAIN calendar THEN Outcomes ELSE {FALSE}) :
          /\ calendar' = delete_event(calendar, LessonId, delete_ok)
          /\ hist' = [hist EXCEPT !.ops = Append(@, IF delete_ok THEN "delete"
                                                    ELSE "delete failed"),
                                  !.deletes = @ + 1,
                                  !.clean = hist.clean /\ delete_ok]
          /\ budget' = Spend(budget, IF LessonId \in DOMAIN calendar
                                     THEN Cost(delete_ok) ELSE 0)
          /\ pc' = IF delete_ok THEN "sl_create" ELSE "sl_week"
          /\ sl' = IF delete_ok THEN sl ELSE [sl EXCEPT !.wk = @ + 1, !.entries = <<>>]
    /\ UNCHANGED <<upstream, snapshot, connected, who, current_schedule, changes,
                   job, job_schedule, auto_sync,
                   snapshot_file, call,
                   _job_scheduled, job_queue>>

\* sync_lessons, "existing_events[event_id].delete()": an exception is
\* swallowed.  Deleting an event that is no longer there raises.
SlDelete ==
    /\ pc = "sl_delete"
    /\ \E delete_ok \in (IF LessonId \in DOMAIN calendar THEN Outcomes ELSE {FALSE}) :
          /\ calendar' = delete_event(calendar, LessonId, delete_ok)
          /\ hist' = [hist EXCEPT !.ops = Append(@, IF delete_ok THEN "delete"
                                                    ELSE "delete failed"),
                                  !.deletes = @ + 1,
                                  !.clean = hist.clean /\ delete_ok]
          /\ budget' = Spend(budget, IF LessonId \in DOMAIN calendar
                                     THEN Cost(delete_ok) ELSE 0)
    /\ pc' = "sl_create"
    /\ UNCHANGED <<upstream, snapshot, connected, who, sl, current_schedule, changes,
                   job, job_schedule, auto_sync,
                   snapshot_file, call,
                   _job_scheduled, job_queue>>

\* the answers of the server to the save of an event
SaveOutcomes ==
    {"ok"} \cup (IF LessonId \in DOMAIN calendar THEN {"conflict"} ELSE {})
           \cup (IF budget.failures < MaxFailures THEN {"fail"} ELSE {})

\* sync_lessons, "if self.create_or_update_event(...)" and the counters
SlCreate ==
    /\ pc = "sl_create"
    /\ \E outcome \in SaveOutcomes :
          LET week == sl.weeks[sl.wk]
              done == create_or_update_event(outcome)
          IN /\ calendar' = save_event(calendar, LessonId,
                                       LessonEvent(sl.lesson, week), outcome)
             /\ sl' = IF ~done THEN sl
                      ELSE IF sl.event_exists
                      THEN [sl EXCEPT !.updated = @ + 1, !.total_events = @ + 1]
                      ELSE [sl EXCEPT !.created = @ + 1, !.total_events = @ + 1]
             /\ hist' = [hist EXCEPT
                            !.last = "lesson",
                            !.ops = Append(@, IF done THEN "create" ELSE "create failed"),
                            !.creates = @ + 1,
                            !.attempted = @ \cup {LessonId},
                            !.seen = @ \cup {LessonId},
                            !.outcome = outcome,
                            !.failed_weeks = IF done THEN @ ELSE @ \cup {week},
                            !.pending = IF done THEN @ \ {LessonId}
                                        ELSE @ \cup {LessonId},
                            !.clean = hist.clean /\ done]
             /\ budget' = Spend(budget, IF outcome = "fail" THEN 1 ELSE 0)
    /\ pc' = "sl_lesson"
    /\ UNCHANGED <<upstream, snapshot, connected, who, current_schedule, changes, job,
                   job_schedule, auto_sync,
                   snapshot_file, call,
                   _job_scheduled, job_queue>>

\* sync_command after sync_lessons: fetch_current_schedule, update_snapshot
ScCommit ==
    /\ pc = "sc_commit"
    /\ \E ok \in OkWeekSets :
          LET fetched == fetch_current_schedule(upstream, group_name, weeks_to_monitor, ok)
          IN /\ snapshot' = update_snapshot(snapshot, group_name, weeks_to_monitor, fetched)
             /\ hist' = [hist EXCEPT !.last = "commit", !.fetch_failed = Weeks \ ok,
                                     !.committed = fetched, !.commits = 1,
                                     !.clean = hist.clean /\ ok = Weeks]
             /\ \E write \in (IF ok = Weeks THEN WriteOutcomes ELSE {"ok"}) :
                   /\ snapshot_file' = _save_snapshot(snapshot_file, snapshot', write)
                   /\ budget' = Spend(budget, Cardinality(Weeks \ ok)
                                              + (IF write = "ok" THEN 0 ELSE 1))
    /\ pc' = "done"
    /\ UNCHANGED <<upstream, calendar, connected, who, sl, current_schedule, changes,
                   job, job_schedule, auto_sync, call,
                   _job_scheduled, job_queue>>

\* auto_check after sync_lessons: update_snapshot with the schedule it fetched
\* before the await
AcCommit ==
    /\ pc = "ac_commit"
    /\ snapshot' = update_snapshot(snapshot, group_name, weeks_to_monitor, job_schedule)
    /\ hist' = [hist EXCEPT !.last = "commit", !.committed = job_schedule, !.commits = 1]
    /\ \E write \in WriteOutcomes :
          /\ snapshot_file' = _save_snapshot(snapshot_file, snapshot', write)
          /\ budget' = Spend(budget, IF write = "ok" THEN 0 ELSE 1)
    /\ pc' = "done"
    /\ job' = "none"
    /\ job_schedule' = EmptyDict
    /\ UNCHANGED <<upstream, calendar, connected, who, sl, current_schedule, changes,
                   auto_sync, call,
                   _job_scheduled, job_queue>>

\* the handler ends: its locals are gone
Finish ==
    /\ pc = "done"
    /\ pc' = "idle"
    /\ who' = "none"
    /\ sl' = SlInit(weeks_to_monitor, TRUE)
    /\ current_schedule' = EmptyDict
    /\ changes' = <<>>
    /\ hist' = [RunStart(hist) EXCEPT !.pending0 = {}, !.after_added = FALSE]
    /\ UNCHANGED <<upstream, snapshot, calendar, connected, job, job_schedule,
                   auto_sync, budget,
                   snapshot_file, call,
                   _job_scheduled, job_queue>>

\* python data_parser.py: save_schedule_to_json fetches the weeks and writes
\* schedule_snapshot.json anew; a day number outside 1..7 raises before the
\* file is opened
SaveScheduleToJson ==
    /\ \A w \in Weeks : \A i \in DOMAIN upstream[w] : upstream[w][i].day_number \in 1..7
    /\ snapshot_file' =
          JsonFile(ScheduleDocument(get_schedule_for_snapshot(upstream, group_name, Weeks)))
    /\ UNCHANGED <<upstream, snapshot, calendar, connected, pc, who, sl, current_schedule,
                   changes, job, job_schedule, auto_sync, hist, budget, call,
                   _job_scheduled, job_queue>>

Next ==
    \/ UpstreamChange
    \/ SaveScheduleToJson
    \/ CheckCommand
    \/ AutoCheck
    \/ AutoCheckResume
    \/ SyncCommand
    \/ CliSync
    \/ SlStart
    \/ SlWeek
    \/ SlLesson
    \/ SlDelete
    \/ SlCreate
    \/ ScCommit
    \/ AcCommit
    \/ Finish

Spec == Init /\ [][Next]_vars

-----------------------------------------------------------------------------
(* The bot from its construction: /start schedules the periodic auto_check     *)

\* a start_command that schedules the job and forgets to set the flag
StartCommand_NoFlag ==
    /\ pc = "idle"
    /\ budget.starts < MaxStarts
    /\ \E available \in BOOLEAN :
          /\ job_queue' = IF ~_job_scheduled /\ available THEN job_queue + 1 ELSE job_queue
          /\ _job_scheduled' = _job_scheduled
          /\ hist' = [hist EXCEPT !.last = IF available THEN "start" ELSE "start_noqueue"]
    /\ budget' = [budget EXCEPT !.starts = @ + 1]
    /\ who' = "start_command"
    /\ UNCHANGED <<upstream, snapshot, snapshot_file, calendar, connected, pc, sl,
                   current_schedule, changes, job, job_schedule, auto_sync, call>>

\* start_command, where `available` says that context.job_queue is there:
\* while _job_scheduled is False and the queue is there, run_repeating puts
\* auto_check into the queue and the flag is set; then the greeting is sent
StartCommand ==
    /\ pc = "idle"
    /\ budget.starts < MaxStarts
    /\ \E available \in BOOLEAN :
          /\ job_queue' = IF ~_job_scheduled /\ available THEN job_queue + 1 ELSE job_queue
          /\ _job_scheduled' = (_job_scheduled \/ available)
          /\ hist' = [hist EXCEPT !.last = IF available THEN "start" ELSE "start_noqueue"]
    /\ budget' = [budget EXCEPT !.starts = @ + 1]
    /\ who' = "start_command"
    /\ UNCHANGED <<upstream, snapshot, snapshot_file, calendar, connected, pc, sl,
                   current_schedule, changes, job, job_schedule, auto_sync, call>>

\* ScheduleBot() on a machine without a snapshot file
InitStart ==
    /\ upstream \in [Weeks -> Listings]
    /\ snapshot_file = AbsentFile
    /\ snapshot = _load_snapshot(snapshot_file)
    /\ call = NoCall
    /\ calendar = EmptyDict
    /\ connected = FALSE
    /\ pc = "idle"
    /\ who = "none"
    /\ sl = SlInit(weeks_to_monitor, TRUE)
    /\ current_schedule = EmptyDict
    /\ changes = <<>>
    /\ job = "none"
    /\ job_schedule = EmptyDict
    /\ auto_sync = FALSE
    /\ hist = HistInit
    /\ budget = [runs |-> 0, edits |-> 0, failures |-> 0, starts |-> 0]
    /\ _job_scheduled = FALSE
    /\ job_queue = 0

NextStart ==
    \/ StartCommand
    \/ CheckCommand
    \/ AutoCheck
    \/ Finish

SpecStart == InitStart /\ [][NextStart]_vars

-----------------------------------------------------------------------------
(* The functions called on their own, on inputs of their own                   *)

\* Python's None where a string is expected
NoneId == "None"

\* r_groups.json(): the groups of the site, in the order of the answer
GroupsOnSite ==
    << [Denumire |-> "IT11Z", Id |-> "1042"], [Denumire |-> "MI21Z", Id |-> "1187"] >>

\* the group names a caller asks for
RequestedGroups == {"IT11Z", "MI21Z", "IT99X", ""}

\* _get_groups_by_name: the Id of the first group of that name, None when
\* the loop ends without one
RECURSIVE _get_groups_by_name(_, _)
_get_groups_by_name(groups, name) ==
    IF groups = <<>> THEN NoneId
    ELSE IF Head(groups).Denumire = name THEN Head(groups).Id
    ELSE _get_groups_by_name(Tail(groups), name)

\* what a POST to the site comes back with: a JSON body, or one .json()
\* raises on
Answers == {"json", "not_json"}

\* get_raw_schedule_json as a whole: the groups request, the form data with
\* the group id whatever it is, the lessons request, and ValueError for any
\* exception of the lessons request
GetRawScheduleJsonCall ==
    /\ \E name \in RequestedGroups, week \in Weeks, groups_answer \in Answers,
          lessons_answer \in Answers :
          call' =
            IF groups_answer = "not_json"
            THEN [fn |-> "get_raw_schedule_json", group |-> name, week |-> week,
                  group_id |-> NoneId, resolved |-> FALSE, posted |-> FALSE,
                  outcome |-> "raised"]
            ELSE LET group_id == _get_groups_by_name(GroupsOnSite, name)
                 IN [fn |-> "get_raw_schedule_json", group |-> name, week |-> week,
                     group_id |-> group_id, resolved |-> TRUE, posted |-> TRUE,
                     outcome |-> IF lessons_answer = "json" THEN "returned"
                                 ELSE "ValueError"]
    /\ UNCHANGED <<upstream, snapshot, snapshot_file, calendar, connected, pc, who, sl,
                   current_schedule, changes, job, job_schedule, auto_sync, hist, budget,
                   _job_scheduled, job_queue>>

\* list(range(a, b))
Range(a, b) == [i \in 1..(IF b > a THEN b - a ELSE 0) |-> a + i - 1]

Min(a, b) == IF a < b THEN a ELSE b

\* sync_lessons: the weeks to sync, from the weeks argument when one is
\* given, from the current week when neither it nor both ends are given
SyncWeeks(weeks_given, weeks, ends_given, start_week, end_week, cw) ==
    IF weeks_given THEN weeks
    ELSE IF ~ends_given THEN Range(cw, Min(cw + 5, 20))
    ELSE Range(start_week, end_week + 1)

\* the current university weeks a call is made in
MaxCurrentWeek == 22

\* the weeks arguments of a call
WeekLists == {<<>>, <<11>>, <<11, 12>>, <<19, 20>>}

\* sync_lessons up to the window of existing events: min(weeks) and
\* max(weeks) raise ValueError on an empty list
SyncLessonsCall ==
    /\ \E weeks_given \in BOOLEAN, weeks \in WeekLists, ends_given \in BOOLEAN,
          start_week \in {11, 12}, end_week \in {11, 12}, cw \in 1..MaxCurrentWeek :
          LET synced == SyncWeeks(weeks_given, weeks, ends_given, start_week, end_week, cw)
          IN call' =
               [fn |-> "sync_lessons", weeks_given |-> weeks_given,
                weeks_arg |-> IF weeks_given THEN weeks ELSE <<>>,
                ends_given |-> ~weeks_given /\ ends_given, current_week |-> cw,
                weeks |-> synced,
                outcome |-> IF synced = <<>> THEN "ValueError" ELSE "window",
                first_week |-> IF synced = <<>> THEN 0 ELSE MinWeek(synced),
                last_week |-> IF synced = <<>> THEN 0 ELSE MaxWeek(synced)]
    /\ UNCHANGED <<upstream, snapshot, snapshot_file, calendar, connected, pc, who, sl,
                   current_schedule, changes, job, job_schedule, auto_sync, hist, budget,
                   _job_scheduled, job_queue>>

\* the lessons get_lesson_id is called for: group, week, day, lesson number,
\* name, type, teacher
LessonKeys ==
    {"IT1", "IT11"} \X {1, 11} \X {1} \X {3} \X {"Math", "MathLab"} \X {"", "Lab"}
        \X {"", "Lab"}

\* get_lesson_id for two lessons
GetLessonIdCall ==
    /\ \E a \in LessonKeys, b \in LessonKeys :
          call' = [fn |-> "get_lesson_id", first |-> a, second |-> b,
                   first_id |-> get_lesson_id(a[1], a[2], a[3], a[4], a[5], a[6], a[7]),
                   second_id |-> get_lesson_id(b[1], b[2], b[3], b[4], b[5], b[6], b[7])]
    /\ UNCHANGED <<upstream, snapshot, snapshot_file, calendar, connected, pc, who, sl,
                   current_schedule, changes, job, job_schedule, auto_sync, hist, budget,
                   _job_scheduled, job_queue>>

\* the characters of iCalendar text that are not written as themselves
CR == "\\r"
LF == "\\n"

\* the length the model gives an identity, for the 32 of the digest
IdLen == 3

\* the identities of the generator, as their characters: hexadecimal digits
HexDigits == {"3", "a", "d"}
GeneratedIds == [1..IdLen -> HexDigits]

\* "@usarb-schedule.local"
UidDomain ==
    <<"@", "u", "s", "a", "r", "b", "-", "s", "c", "h", "e", "d", "u", "l", "e",
        ".", "l", "o", "c", "a", "l" >>

\* uid = f"{event_id}@usarb-schedule.local"
Uid(event_id) == event_id \o UidDomain

\* the lines of ical_content up to "UID:", joined with CRLF
ICalHead ==
    <<"B", "E", "G", "I", "N", ":", "V", "C", "A", "L", "E", "N", "D", "A", "R",
        CR, LF, "V", "E", "R", "S", "I", "O", "N", ":", "2", ".", "0", CR, LF, "P",
        "R", "O", "D", "I", "D", ":", "-", "/", "/", "U", "S", "A", "R", "B", " ",
        "S", "c", "h", "e", "d", "u", "l", "e", "/", "/", "E", "N", CR, LF, "B",
        "E", "G", "I", "N", ":", "V", "E", "V", "E", "N", "T", CR, LF, "U", "I",
        "D", ":" >>

\* ical_content as the server gives it back in event.data: the head, the UID
\* and the lines after it, of which the start of the first is kept
ical_content(event_id) ==
    ICalHead \o Uid(event_id) \o
    <<CR, LF, "D", "T", "S", "T", "A", "R", "T", ":" >>

\* re.IGNORECASE for the letters of the pattern
Lower(c) == CASE c = "U" -> "u" [] c = "I" -> "i" [] c = "D" -> "d" [] OTHER -> c

\* the end of the run of characters other than CR and LF that starts at i
RECURSIVE LineEnd(_, _)
LineEnd(data, i) ==
    IF i > Len(data) \/ data[i] \in {CR, LF} THEN i - 1 ELSE LineEnd(data, i + 1)

\* re.search(r'UID(?::|;)([^\r\n]+)', ical_data, re.IGNORECASE).group(1): the
\* first place where the pattern matches, and the empty sequence for no match
uid_match(data) ==
    LET starts == { i \in 1..(Len(data) - 4) :
                      /\ Lower(data[i]) = "u" /\ Lower(data[i + 1]) = "i"
                      /\ Lower(data[i + 2]) = "d" /\ data[i + 3] \in {":", ";"}
                      /\ data[i + 4] \notin {CR, LF} }
    IN IF starts = {} THEN <<>>
       ELSE LET first == CHOOSE i \in starts : \A j \in starts : i <= j
            IN SubSeq(data, first + 4, LineEnd(data, first + 4))

\* str.strip()
RECURSIVE Strip(_)
Strip(text) ==
    IF text = <<>> THEN text
    ELSE IF Head(text) = " " THEN Strip(Tail(text))
    ELSE IF text[Len(text)] = " " THEN Strip(SubSeq(text, 1, Len(text) - 1))
    ELSE text

\* the UID itself taken for the event id
EventIdOfUid_Whole(uid) == uid

\* uid.split('@')[0]
EventIdOfUid(uid) ==
    LET ats == { i \in DOMAIN uid : uid[i] = "@" }
    IN IF ats = {} THEN uid
       ELSE SubSeq(uid, 1, (CHOOSE i \in ats : \A j \in ats : i <= j) - 1)

\* the keys of existing_events for the events a search has found
ParsedKeys(events) ==
    { EventIdOfUid(Strip(uid_match(event.data))) :
        event \in { e \in events : \E i \in DOMAIN Strip(uid_match(e.data)) :
                                      Strip(uid_match(e.data))[i] = "@" } }

\* the weeks a created event starts in
EventWeeks == {11, 12, 13}

\* create_or_update_event for an identity and get_existing_events for a
\* window, on a calendar that holds nothing else
ExistingEventsCall ==
    /\ \E event_id \in GeneratedIds, week \in EventWeeks, weeks \in WeekLists \ {<<>>} :
          LET stored == [dtstart |-> calc_lesson_datetime(week, 1, 3),
                         data |-> ical_content(event_id)]
              found == IF InWindow(stored, weeks) THEN {stored} ELSE {}
          IN call' = [fn |-> "get_existing_events", event_id |-> event_id,
                      week |-> week, weeks |-> weeks,
                      in_window |-> InWindow(stored, weeks),
                      uid |-> uid_match(stored.data),
                      keys |-> ParsedKeys(found)]
    /\ UNCHANGED <<upstream, snapshot, snapshot_file, calendar, connected, pc, who, sl,
                   current_schedule, changes, job, job_schedule, auto_sync, hist, budget,
                   _job_scheduled, job_queue>>

InitCalls ==
    /\ Init
    /\ upstream = [w \in Weeks |-> <<>>]

NextCalls ==
    \/ GetRawScheduleJsonCall
    \/ SyncLessonsCall
    \/ GetLessonIdCall
    \/ ExistingEventsCall

SpecCalls == InitCalls /\ [][NextCalls]_vars

-----------------------------------------------------------------------------
(* The diff engine alone: a bot that starts on the snapshot file an earlier    *)
(* process left, and is asked to check                                         *)

SavedSnapshots ==
    {EmptyDict} \cup
    { update_snapshot(EmptyDict, group_name, weeks_to_monitor,
                      fetch_current_schedule(site, group_name, weeks_to_monitor, ok)) :
        site \in [Weeks -> DiffListings], ok \in SUBSET Weeks }

\* the files an earlier process may have left
SnapshotFiles ==
    {AbsentFile, GarbageFile} \cup { JsonFile(json_dump(snap)) : snap \in SavedSnapshots }

InitDiff ==
    /\ upstream \in [Weeks -> DiffListings]
    /\ snapshot_file \in SnapshotFiles
    /\ snapshot = _load_snapshot(snapshot_file)
    /\ call = NoCall
    /\ calendar = EmptyDict
    /\ connected = FALSE
    /\ pc = "idle"
    /\ who = "none"
    /\ sl = SlInit(weeks_to_monitor, TRUE)
    /\ current_schedule = EmptyDict
    /\ changes = <<>>
    /\ job = "none"
    /\ job_schedule = EmptyDict
    /\ auto_sync = FALSE
    /\ hist = [HistInit EXCEPT !.loaded = snapshot, !.file0 = snapshot_file]
    /\ budget = [runs |-> 0, edits |-> 0, failures |-> 0, starts |-> 0]
    /\ Started

NextDiff ==
    \/ CheckCommand
    \/ AutoCheck
    \/ Finish

SpecDiff == InitDiff /\ [][NextDiff]_vars

-----------------------------------------------------------------------------
(* Properties *)

\* the slice of the snapshot for the group and a week
SavedWeek(snap, week) == Get(Get(snap, group_name, EmptyDict), Str(week), EmptyDict)

CurrentWeek(current, week) == Get(current, Str(week), EmptyDict)

\* the identities of a week that the change list gives a change of a type
Classified(found, week, type) ==
    { found[i].event_id : i \in { j \in DOMAIN found :
                                    found[j].week = week /\ found[j].type = type } }

\* the changes of the list that are about an identity of a week
ChangesOf(found, week, id) ==
    { i \in DOMAIN found : found[i].week = week /\ found[i].event_id = id }

\* the identities of both slices whose lessons agree in every field
Unchanged(saved_week_d, current_week_d) ==
    { id \in (DOMAIN saved_week_d) \cap (DOMAIN current_week_d) :
        \A k \in (DOMAIN saved_week_d[id]) \cup (DOMAIN current_week_d[id]) :
            /\ k \in DOMAIN saved_week_d[id]
            /\ k \in DOMAIN current_week_d[id]
            /\ saved_week_d[id][k] = current_week_d[id][k] }

\* a diff has just been computed from snapshot and current_schedule
Diffed_Now == pc = "done" /\ hist.last = "detect"

\* C1: detect_changes puts every identity of S \cup C, of one group and week,
\* into exactly one of Added, Removed, Modified and unchanged, so the four
\* classes add up to |S \cup C|
C1_DiffPartition ==
    Diffed_Now =>
      \A week \in Weeks :
        LET S == SavedWeek(snapshot, week)
            C == CurrentWeek(current_schedule, week)
            ids == (DOMAIN S) \cup (DOMAIN C)
            Added == Classified(changes, week, "added")
            Removed == Classified(changes, week, "removed")
            Modified == Classified(changes, week, "modified")
            Same == Unchanged(S, C)
        IN /\ Added \cup Removed \cup Modified \subseteq ids
           /\ \A id \in ids :
                 Cardinality(ChangesOf(changes, week, id))
                   + (IF id \in Same THEN 1 ELSE 0) = 1
           /\ Cardinality(Added) + Cardinality(Removed) + Cardinality(Modified)
                + Cardinality(Same) = Cardinality(ids)

\* a diff of a week with an added, a removed, a modified and an unchanged lesson
C1_Witness ==
    /\ Diffed_Now
    /\ \E week \in Weeks :
          /\ Classified(changes, week, "added") # {}
          /\ Classified(changes, week, "removed") # {}
          /\ Classified(changes, week, "modified") # {}
          /\ Unchanged(SavedWeek(snapshot, week),
                       CurrentWeek(current_schedule, week)) # {}

\* C2: the snapshot of a week is committed only after all its lessons were
\* reconciled: in a run where the create of a lesson of a week failed, the
\* snapshot slice of that week is left as it was
C2_NoCommitAfterFailedCreate ==
    [][ \A week \in hist.failed_weeks :
          SavedWeek(snapshot', week) = SavedWeek(snapshot, week) ]_vars

\* sync_lessons has just returned, and the sync_lessons before it had ended
\* without a failure, the upstream unchanged since
SecondSyncReturned == hist.last = "sync" /\ hist.after_settled /\ hist.clean

\* C3: a second reconcile in a row, with no upstream change in between and no
\* failure in the first, makes no calendar create and no calendar delete
C3_SecondRunIdle ==
    SecondSyncReturned => hist.creates = 0 /\ hist.deletes = 0

\* C4: when the fetch of a week fails, detect_changes emits no change for a
\* lesson of that week
C4_NoChangeForFailedWeek ==
    Diffed_Now =>
      \A week \in hist.fetch_failed :
        \A i \in DOMAIN changes : changes[i].week # week

\* sync_command stores the snapshot in this step
ScCommitStep == pc = "sc_commit" /\ pc' = "done"

\* C5: when the fetch of a week fails during a run, the snapshot slice of
\* that week is after the run what it was before, also when update_snapshot
\* is called for a list of weeks with the failed week in it
C5_FailedWeekUntouched ==
    [][ ScCommitStep =>
          \A week \in hist'.fetch_failed :
            SavedWeek(snapshot', week) = SavedWeek(snapshot, week) ]_vars

\* sync_lessons has just dealt with a lesson
LessonHandled == pc = "sl_lesson" /\ hist.last = "lesson"

\* C6: with overwrite disabled, a lesson whose event is in the calendar is
\* skipped: it is counted as skipped and no create or delete is issued
C6_SkipWhenNoOverwrite ==
    (LessonHandled /\ ~sl.overwrite /\ hist.in_calendar) =>
        hist.ops = <<"skip">> /\ sl.skipped > 0

DeleteTried == {<<"delete">>, <<"delete failed">>}

DeleteThenCreate ==
    { <<"delete", "create">>, <<"delete", "create failed">>,
      <<"delete failed", "create">>, <<"delete failed", "create failed">> }

\* C7 as stated: with overwrite enabled, for a lesson whose event is in the
\* calendar a delete is attempted and then the create
C7_DeleteBeforeCreate ==
    (LessonHandled /\ sl.overwrite /\ hist.in_calendar) =>
        hist.ops \in DeleteThenCreate

\* C7, amended: with overwrite enabled, for a lesson whose event the search
\* before the loop has found, the delete is attempted first and the create
\* after it, whether or not the delete succeeded
C7_DeleteBeforeCreateWhenFound ==
    /\ [](pc = "sl_delete" => sl.overwrite /\ sl.event_exists /\ hist.ops = <<>>)
    /\ []((pc = "sl_create" /\ sl.overwrite /\ sl.event_exists) =>
             hist.ops \in DeleteTried)
    /\ []((LessonHandled /\ sl.overwrite /\ sl.event_exists) =>
             hist.ops \in DeleteThenCreate)
    /\ [][ (pc = "sl_delete" /\ pc' # pc) => pc' = "sl_create" /\ sl' = sl ]_vars
    /\ [][ (pc = "sl_create" /\ pc' # pc) =>
             /\ pc' = "sl_lesson"
             /\ hist'.creates = hist.creates + 1
             /\ Len(hist'.ops) = Len(hist.ops) + 1 ]_vars

\* the create of a lesson was made after the delete of its event had failed
C7_Witness ==
    /\ LessonHandled /\ sl.overwrite /\ sl.event_exists
    /\ hist.ops = <<"delete failed", "create">>

\* the identities that the diff of a schedule against the snapshot reports Removed
RemovedIds(snap, schedule) ==
    LET found == detect_changes(snap, group_name, weeks_to_monitor, schedule)
    IN { found[i].event_id : i \in { j \in DOMAIN found : found[j].type = "removed" } }

\* C8: when the fetch of a week returns no entry and the snapshot holds N
\* lessons for it, the diff yields N Removed changes and an empty slice is
\* committed; and every identity reported Removed has no calendar event after
\* the reconciliation
C8_RemovedAreDeleted ==
    [][ (ScCommitStep /\ hist'.clean) =>
          /\ \A week \in Weeks :
                CurrentWeek(hist'.committed, week) = EmptyDict =>
                  /\ DOMAIN SavedWeek(snapshot, week)
                       \subseteq RemovedIds(snapshot, hist'.committed)
                  /\ SavedWeek(snapshot', week) = EmptyDict
          /\ \A id \in RemovedIds(snapshot, hist'.committed) :
                id \notin DOMAIN calendar' ]_vars

\* an auto_check run with AUTO_SYNC has ended without a failure
AutoSyncRunEnded ==
    pc = "done" /\ who = "auto_check" /\ job = "none" /\ auto_sync /\ hist.clean

\* C9: a lesson whose create failed in a run is retried: with the upstream
\* unchanged, the next automatic check with auto-sync calls create for it
C9_FailedCreateRetried ==
    AutoSyncRunEnded => hist.pending0 \subseteq hist.attempted

\* C10 as stated: after a run whose diff reports Added, a second run with
\* the same fetch data yields no change
C10_SecondRunNoChange ==
    (Diffed_Now /\ hist.after_added /\ hist.fetch_failed = {}) => changes = <<>>

\* C10, amended: once update_snapshot has stored a schedule, a run whose
\* fetch returns that schedule yields no change
C10_NoChangeAfterCommit ==
    (Diffed_Now /\ hist.commits = 1 /\ current_schedule = hist.committed) =>
        changes = <<>>

\* a diff reported Added, the snapshot was stored, and the next diff of the
\* same data found nothing
C10_Witness ==
    /\ Diffed_Now /\ hist.after_added /\ hist.fetch_failed = {}
    /\ hist.commits = 1 /\ current_schedule = hist.committed
    /\ DOMAIN CurrentWeek(current_schedule, current_week) # {}
    /\ DOMAIN CurrentWeek(current_schedule, current_week) \subseteq DOMAIN calendar
    /\ changes = <<>>

\* the counters sync_lessons prints when it ends
Summary == <<sl.total_events, sl.created, sl.updated, sl.skipped>>

\* a step of sync_lessons in which a request to the site, a delete or a
\* create fails
SyncFailureStep ==
    /\ pc \in {"sl_week", "sl_delete", "sl_create"}
    /\ budget'.failures > budget.failures

\* C11: no error is dropped: every failure of a fetch, a create or a delete
\* increments a counter of the run summary
C11_FailureCounted ==
    [][ SyncFailureStep => Summary' # Summary ]_vars

\* the identities of the entries of a week that have a day and a lesson number
ValidIds(week) ==
    { generate_event_id(group_name, week, upstream[week][i].day_number,
                        upstream[week][i].cours_nr, upstream[week][i].cours_name,
                        upstream[week][i].cours_type) :
        i \in { j \in DOMAIN upstream[week] : upstream[week][j].day_number # 0
                                              /\ upstream[week][j].cours_nr # 0 } }

\* the identities of all entries of a week
AllIds(week) ==
    { _normalize_lesson(upstream[week][i], group_name, week).event_id :
        i \in DOMAIN upstream[week] }

\* the loop over the weeks of sync_lessons has ended
LoopOver == pc = "sl_week" /\ sl.wk > Len(sl.weeks)

\* C12: a failure of one week or of one lesson does not stop the other
\* weeks: sync_lessons has asked the site for every week of its list and has
\* dealt with every lesson of every week that was answered, and
\* fetch_current_schedule holds every week that was answered, whichever
\* requests, creates or deletes failed
C12_OtherWeeksProcessed ==
    /\ LoopOver =>
         /\ hist.requested = Weeks
         /\ \A week \in hist.answered : ValidIds(week) \subseteq hist.seen
    /\ Diffed_Now =>
         \A week \in Weeks \ hist.fetch_failed :
            /\ Str(week) \in DOMAIN current_schedule
            /\ DOMAIN current_schedule[Str(week)] = AllIds(week)

\* the request for the first week failed, and the lesson of the second week
\* was dealt with
C12_Witness ==
    /\ LoopOver
    /\ hist.requested = Weeks
    /\ hist.answered = {current_week + 1}
    /\ ValidIds(current_week) # {}
    /\ ValidIds(current_week + 1) # {}
    /\ ValidIds(current_week + 1) \subseteq hist.attempted

\* C13: a create that the server answers with 412 Precondition Failed, the
\* key being there already, counts as a success: create_or_update_event
\* returns True, the lesson is counted as created or updated and not as failed
C13_ConflictIsSuccess ==
    [][ (pc = "sl_create" /\ hist'.outcome = "conflict") =>
          /\ hist'.ops = Append(hist.ops, "create")
          /\ sl'.total_events = sl.total_events + 1
          /\ sl'.created + sl'.updated = sl.created + sl.updated + 1
          /\ hist'.failed_weeks = hist.failed_weeks
          /\ LessonId \notin hist'.pending
          /\ calendar' = calendar ]_vars

\* the delete of an event failed and the server answered the create with 412
C13_Witness ==
    /\ LessonHandled /\ hist.outcome = "conflict"
    /\ hist.ops = <<"delete failed", "create">>
    /\ sl.updated = 1

\* the events of a calendar that carry an event id in their UID
EventsOf(cal, event_id) == { k \in DOMAIN cal : cal[k].uid[1] = event_id }

\* C14: the calendar holds at most one event per lesson identity, after any
\* sequence of runs, in either overwrite mode, whichever deletes and creates
\* failed, and when the site lists a lesson twice
C14_OneEventPerIdentity ==
    \A k \in DOMAIN calendar :
        /\ Cardinality(EventsOf(calendar, calendar[k].uid[1])) = 1
        /\ calendar[k].uid = <<k, "usarb-schedule.local">>

\* a lesson listed twice was created twice in one run, the second create
\* made over the event of the first, and the calendar holds one event
C14_Witness ==
    /\ LessonHandled
    /\ hist.creates = 2
    /\ hist.ops = <<"create">>
    /\ hist.outcome = "ok"
    /\ hist.in_calendar
    /\ ~sl.event_exists
    /\ Cardinality(hist.attempted) = 1
    /\ Cardinality(EventsOf(calendar, LessonId)) = 1

\* auto_check has fetched the schedule and has not yet stored the snapshot
AutoCheckInFlight == job = "notified"

\* C15: the automatic check and a command of the user never run against the
\* snapshot at once: no command handler runs between the fetch of auto_check
\* and its update_snapshot
C15_NoHandlerDuringAutoCheck ==
    AutoCheckInFlight => who \notin {"check_command", "sync_command"}

\* two normalized lessons agree in day, lesson number, name and type
SameSlotNameType(a, b) ==
    /\ a.day_number = b.day_number
    /\ a.lesson_number = b.lesson_number
    /\ a.cours_name = b.cours_name
    /\ a.cours_type = b.cours_type

\* C16: teacher is part of the identity: two lessons of a group and week that
\* differ in their teacher alone have different identities in the diff, and a
\* change of teacher is never reported as Modified
C16_TeacherInIdentity ==
    Diffed_Now =>
      /\ \A week \in Weeks :
            LET S == SavedWeek(snapshot, week)
                C == CurrentWeek(current_schedule, week)
            IN \A saved_id \in DOMAIN S : \A current_id \in DOMAIN C :
                  ( /\ SameSlotNameType(S[saved_id], C[current_id])
                    /\ S[saved_id].teacher_name # C[current_id].teacher_name )
                  => saved_id # current_id
      /\ \A i \in DOMAIN changes :
            changes[i].type = "modified" =>
               changes[i].old_lesson.teacher_name = changes[i].new_lesson.teacher_name

\* two normalized lessons differ in their office and in nothing else but,
\* possibly, their event id
OnlyOfficeDiffers(a, b) ==
    /\ SameSlotNameType(a, b)
    /\ a.teacher_name = b.teacher_name
    /\ a.cours_office # b.cours_office

\* C17: office is not part of the identity: for a lesson of the snapshot that
\* is in the current schedule of the same group and week with its office
\* changed and nothing else, the diff has one change, a Modified one under the
\* identity the lesson had, and no Added or Removed one
C17_OfficeChangeIsModified ==
    Diffed_Now =>
      \A week \in Weeks :
        LET S == SavedWeek(snapshot, week)
            C == CurrentWeek(current_schedule, week)
        IN \A saved_id \in DOMAIN S : \A current_id \in DOMAIN C :
              OnlyOfficeDiffers(S[saved_id], C[current_id]) =>
                 /\ saved_id = current_id
                 /\ C[current_id].event_id = S[saved_id].event_id
                 /\ Cardinality(ChangesOf(changes, week, saved_id)) = 1
                 /\ saved_id \in Classified(changes, week, "modified")
                 /\ saved_id \notin Classified(changes, week, "added")
                 /\ saved_id \notin Classified(changes, week, "removed")

\* Math has moved from office 224 to office 301 and the diff says so
C17_Witness ==
    /\ Diffed_Now
    /\ \E week \in Weeks :
         LET S == SavedWeek(snapshot, week)
             C == CurrentWeek(current_schedule, week)
         IN \E id \in (DOMAIN S) \cap (DOMAIN C) :
               /\ OnlyOfficeDiffers(S[id], C[id])
               /\ S[id].cours_office = "224"
               /\ C[id].cours_office = "301"
               /\ \E i \in DOMAIN changes :
                     /\ changes[i].type = "modified"
                     /\ changes[i].event_id = id
                     /\ changes[i].old_lesson = S[id]
                     /\ changes[i].new_lesson = C[id]

\* the fields of a normalized lesson that are not its identity
OtherFields(lesson) == (DOMAIN lesson) \ {"event_id"}

\* a field that is not the identity differs between two lessons
FieldDiffers(a, b) ==
    \/ OtherFields(a) # OtherFields(b)
    \/ \E k \in OtherFields(a) : a[k] # b[k]

\* C18: for an identity in both the snapshot slice and the current schedule
\* of a week, detect_changes emits a Modified change, with the old and the new
\* lesson, if and only if a field other than the identity differs; it emits no
\* change for the identity when all fields are equal
C18_ModifiedIffFieldDiffers ==
    Diffed_Now =>
      \A week \in Weeks :
        LET S == SavedWeek(snapshot, week)
            C == CurrentWeek(current_schedule, week)
        IN \A id \in (DOMAIN S) \cap (DOMAIN C) :
              IF FieldDiffers(S[id], C[id])
              THEN /\ Cardinality(ChangesOf(changes, week, id)) = 1
                   /\ \A i \in ChangesOf(changes, week, id) :
                         /\ changes[i].type = "modified"
                         /\ changes[i].old_lesson = S[id]
                         /\ changes[i].new_lesson = C[id]
              ELSE ChangesOf(changes, week, id) = {}

\* of two identities in both slices of a week one has a field changed and a
\* Modified change, the other is as it was and has no change
C18_Witness ==
    /\ Diffed_Now
    /\ \E week \in Weeks :
         LET S == SavedWeek(snapshot, week)
             C == CurrentWeek(current_schedule, week)
         IN \E changed, same \in (DOMAIN S) \cap (DOMAIN C) :
               /\ FieldDiffers(S[changed], C[changed])
               /\ changed \in Classified(changes, week, "modified")
               /\ ~FieldDiffers(S[same], C[same])
               /\ ChangesOf(changes, week, same) = {}

\* the identities of a week, saved or current
WeekIds(week) ==
    (DOMAIN SavedWeek(snapshot, week)) \cup (DOMAIN CurrentWeek(current_schedule, week))

\* C19: weeks are diffed apart: every change of week w is about a lesson of
\* the snapshot slice or of the current schedule of week w and carries the
\* lessons of that week; no identity belongs to two weeks; and a lesson that
\* left one week and came to another with the same fields is Removed in the
\* one and Added in the other, under two identities, and not Modified
C19_WeekIsolation ==
    Diffed_Now =>
      /\ \A i \in DOMAIN changes :
            LET week == changes[i].week
                id == changes[i].event_id
                S == SavedWeek(snapshot, week)
                C == CurrentWeek(current_schedule, week)
            IN /\ week \in Weeks
               /\ changes[i].type = "added" =>
                     id \in (DOMAIN C) \ (DOMAIN S) /\ changes[i].new_lesson = C[id]
               /\ changes[i].type = "removed" =>
                     id \in (DOMAIN S) \ (DOMAIN C) /\ changes[i].old_lesson = S[id]
               /\ changes[i].type = "modified" =>
                     /\ id \in (DOMAIN S) \cap (DOMAIN C)
                     /\ changes[i].old_lesson = S[id]
                     /\ changes[i].new_lesson = C[id]
      /\ \A from, to \in Weeks :
            from # to =>
              /\ WeekIds(from) \cap WeekIds(to) = {}
              /\ LET S == SavedWeek(snapshot, from)
                     C == CurrentWeek(current_schedule, to)
                 IN \A old \in (DOMAIN S) \ (DOMAIN CurrentWeek(current_schedule, from)) :
                    \A new \in (DOMAIN C) \ (DOMAIN SavedWeek(snapshot, to)) :
                       ~FieldDiffers(S[old], C[new]) =>
                          /\ old # new
                          /\ ChangesOf(changes, from, old) # {}
                          /\ \A i \in ChangesOf(changes, from, old) :
                                changes[i].type = "removed"
                          /\ ChangesOf(changes, to, new) # {}
                          /\ \A i \in ChangesOf(changes, to, new) :
                                changes[i].type = "added"
                          /\ ChangesOf(changes, to, old) = {}
                          /\ ChangesOf(changes, from, new) = {}

\* Math has moved from the first week to the second, fields unchanged: it is
\* Removed in the first and Added in the second
C19_Witness ==
    /\ Diffed_Now
    /\ hist.fetch_failed = {}
    /\ LET S == SavedWeek(snapshot, current_week)
           C == CurrentWeek(current_schedule, current_week + 1)
       IN \E old \in (DOMAIN S) \ (DOMAIN CurrentWeek(current_schedule, current_week)) :
          \E new \in (DOMAIN C) \ (DOMAIN SavedWeek(snapshot, current_week + 1)) :
             /\ ~FieldDiffers(S[old], C[new])
             /\ old \in Classified(changes, current_week, "removed")
             /\ new \in Classified(changes, current_week + 1, "added")

\* C20: an entry of the site without day number or lesson number is dropped
\* by the normalization: no schedule fetch_current_schedule returns and no
\* schedule update_snapshot stores holds a lesson whose day_number or
\* lesson_number is 0
C20_NoUnplacedLesson ==
    \A week \in Weeks :
      \A slice \in {CurrentWeek(current_schedule, week), CurrentWeek(hist.committed, week)} :
        \A id \in DOMAIN slice :
           slice[id].day_number # 0 /\ slice[id].lesson_number # 0

\* a step in which update_snapshot runs
UpdateSnapshotStep == pc \in {"sc_commit", "ac_commit"} /\ pc' = "done"

\* C21: update_snapshot for a group and weeks replaces the slices of that
\* group and those weeks and leaves every other slice as it was, and no other
\* operation of the program writes the snapshot file
C21_OnlyUpdateSnapshotWrites ==
    [][ /\ UpdateSnapshotStep =>
            /\ \A g \in (DOMAIN snapshot) \ {group_name} :
                  g \in DOMAIN snapshot' /\ snapshot'[g] = snapshot[g]
            /\ \A w \in DOMAIN Get(snapshot, group_name, EmptyDict) :
                  w \notin {Str(week) : week \in Weeks} =>
                     Get(Get(snapshot', group_name, EmptyDict), w, None)
                        = snapshot[group_name][w]
        /\ snapshot_file' # snapshot_file => UpdateSnapshotStep ]_vars

\* C22: loading the snapshot never fails: a bot that starts without a
\* snapshot file, or on a file that cannot be decoded, holds the empty
\* snapshot and goes on to work from it, every lesson it then fetches being
\* new to it
C22_LoadNeverFails ==
    snapshot_file.state \in {"absent", "garbage"} =>
       /\ DOMAIN snapshot = {}
       /\ DOMAIN hist.loaded = {}
       /\ Diffed_Now =>
             /\ \A i \in DOMAIN changes : changes[i].type = "added"
             /\ \A week \in Weeks :
                   Classified(changes, week, "added")
                      = DOMAIN CurrentWeek(current_schedule, week)

C22_Witness ==
    /\ snapshot_file.state = "garbage"
    /\ Diffed_Now
    /\ changes # <<>>

C22_WitnessAbsent ==
    /\ snapshot_file.state = "absent"
    /\ Diffed_Now
    /\ changes # <<>>

\* C23: get_raw_schedule_json fails with an error when the group name is not
\* the name of a group of the site: it sends no lessons request and returns
\* no lesson data for it
C23_UnresolvedGroupFails ==
    (/\ call.fn = "get_raw_schedule_json"
     /\ call.resolved
     /\ call.group_id = NoneId) =>
        /\ ~call.posted
        /\ call.outcome # "returned"

\* the identity the monitor gives the i-th entry of the site's listing of a week
EntryId(week, i) == _normalize_lesson(upstream[week][i], group_name, week).event_id

\* C24: when a fetch of a week holds several entries of one identity, the
\* fetched schedule has exactly one lesson under that identity, with the
\* fields of the last of these entries
C24_LastDuplicateWins ==
    Diffed_Now =>
      \A week \in Weeks :
        Str(week) \in DOMAIN current_schedule =>
          LET fetched == CurrentWeek(current_schedule, week)
              entries == upstream[week]
          IN /\ DOMAIN fetched = { EntryId(week, i) : i \in DOMAIN entries }
             /\ \A i \in DOMAIN entries :
                   (\A j \in DOMAIN entries : j > i => EntryId(week, j) # EntryId(week, i))
                      => fetched[EntryId(week, i)]
                            = _normalize_lesson(entries[i], group_name, week)

C24_Witness ==
    /\ Diffed_Now
    /\ \E week \in Weeks :
          /\ upstream[week] = <<Math224, Math301>>
          /\ Cardinality(DOMAIN CurrentWeek(current_schedule, week)) = 1
          /\ \A id \in DOMAIN CurrentWeek(current_schedule, week) :
                CurrentWeek(current_schedule, week)[id].cours_office = "301"

\* the file a save of the snapshot leaves when the write goes through
Saved(snap) == _save_snapshot(AbsentFile, snap, "ok")

\* C25: saving is stable under load: for the snapshot S the monitor holds,
\* the load of the saved S is S, group by group, week key by week key,
\* identity by identity and field by field, and saving that load gives the
\* file the save of S gave
C25_SaveLoadSave ==
    /\ _load_snapshot(Saved(snapshot)) = snapshot
    /\ Saved(_load_snapshot(Saved(snapshot))) = Saved(snapshot)
    /\ snapshot_file = Saved(snapshot) => _load_snapshot(snapshot_file) = snapshot

C25_Witness ==
    /\ hist.last = "commit"
    /\ snapshot_file = Saved(snapshot)
    /\ \E week \in Weeks : \E id \in DOMAIN SavedWeek(snapshot, week) :
          /\ SavedWeek(snapshot, week)[id].cours_office = "301"
          /\ SavedWeek(snapshot, week)[id].lesson_number = 3
          /\ snapshot_file.doc[group_name][Str(week)][id].lesson_number = JNum(3)

\* the identities update_snapshot has just stored for the monitored weeks
StoredIds == UNION { DOMAIN SavedWeek(snapshot', week) : week \in Weeks }

\* C26: the snapshot committed after a sync describes the lessons the same
\* run applied to the calendar: when nothing failed in the run, the
\* identities stored for the monitored weeks are the ones sync_lessons created
\* or updated, and each stored lesson has its office in the event of its
\* identity, also when the site changes its listing during the run
C26_SnapshotMatchesSync ==
    [][ (UpdateSnapshotStep /\ hist'.clean /\ hist.answered = Weeks) =>
           /\ StoredIds = hist.attempted
           /\ \A week \in Weeks : \A id \in DOMAIN SavedWeek(snapshot', week) :
                 /\ id \in DOMAIN calendar'
                 /\ calendar'[id].location
                      = (IF SavedWeek(snapshot', week)[id].cours_office # ""
                         THEN SavedWeek(snapshot', week)[id].cours_office
                         ELSE "Unknown") ]_vars

\* C27: fetching, diffing and reporting leave the snapshot alone: after any
\* number of /check commands and of automatic checks without auto-sync, the
\* snapshot in memory is the one loaded at start-up and the snapshot file is
\* the one found at start-up
C27_ChecksKeepSnapshot ==
    /\ snapshot = hist.loaded
    /\ snapshot_file = hist.file0

C27_Witness ==
    /\ Diffed_Now
    /\ budget.runs = MaxRuns
    /\ changes # <<>>
    /\ snapshot # EmptyDict
    /\ snapshot_file.state = "json"
    /\ \E week \in Weeks :
          DOMAIN CurrentWeek(current_schedule, week) # DOMAIN SavedWeek(snapshot, week)

\* C28: after every update_snapshot the snapshot in memory is the content of
\* the snapshot file, also when the write to the file fails
C28_MemoryEqualsFile ==
    [][ UpdateSnapshotStep =>
           /\ snapshot_file'.state = "json"
           /\ _load_snapshot(snapshot_file') = snapshot' ]_vars

\* C29: sync_lessons raises for no input: without a weeks argument it takes
\* the weeks from the current week up to the current week + 4, below week 20,
\* and for every current week and for an empty list of weeks it gets past
\* the window of existing events instead of failing on an empty list
C29_SyncLessonsNeverRaises ==
    call.fn = "sync_lessons" =>
       /\ (~call.weeks_given /\ ~call.ends_given) =>
             call.weeks = Range(call.current_week, Min(call.current_week + 5, 20))
       /\ call.outcome # "ValueError"

\* C30: the string get_lesson_id hashes tells its inputs apart: two lessons
\* that differ in group, week, day, lesson number, name, type or teacher never
\* get the same string, and so never the same identity
C30_PreHashInjective ==
    (call.fn = "get_lesson_id" /\ call.first # call.second) =>
        call.first_id # call.second_id

\* a /start has just been handled
StartStep == budget'.starts = budget.starts + 1

\* C31: over any sequence of /start commands auto_check is scheduled at most
\* once, the flag saying exactly whether it is; a /start that finds no job
\* queue schedules nothing and leaves the flag false, and a later /start that
\* finds one schedules the job
C31_ScheduledAtMostOnce ==
    /\ [](job_queue <= 1 /\ (_job_scheduled <=> job_queue = 1))
    /\ [][ (StartStep /\ hist'.last = "start_noqueue") =>
              /\ job_queue' = job_queue
              /\ _job_scheduled' = _job_scheduled ]_vars
    /\ [][ (StartStep /\ hist'.last = "start" /\ ~_job_scheduled) =>
              /\ job_queue' = 1
              /\ _job_scheduled' ]_vars
    /\ [][ (StartStep /\ _job_scheduled) =>
              /\ job_queue' = job_queue
              /\ _job_scheduled' ]_vars

\* after two /start commands the one scheduled auto_check has run
C31_Witness ==
    /\ budget.starts = MaxStarts
    /\ _job_scheduled
    /\ job_queue = 1
    /\ who = "auto_check"
    /\ Diffed_Now

\* a /start found no job queue
C31_WitnessNoQueue ==
    /\ budget.starts = 1
    /\ hist.last = "start_noqueue"
    /\ ~_job_scheduled
    /\ job_queue = 0

\* C32: an event created with event id E whose start lies in the searched
\* window is in the result of get_existing_events under the key E: the id cut
\* from the UID of the stored event is the id the UID was made of, for every
\* identity of the generator
C32_UidRoundTrip ==
    call.fn = "get_existing_events" =>
       /\ call.uid = Uid(call.event_id)
       /\ call.in_window => call.keys = {call.event_id}
       /\ ~call.in_window => call.keys = {}

C32_Witness ==
    /\ call.fn = "get_existing_events"
    /\ call.in_window
    /\ call.event_id = <<"d", "a", "3">>
    /\ call.week = 12
    /\ call.weeks = <<11, 12>>
    /\ call.keys = {<<"d", "a", "3">>}

====
